---- MODULE Spec2Model ----
(***************************************************************************)
(* A model of the gate/session orchestration core of b2b-content-agent:    *)
(* HITLOrchestrator.run_full_pipeline (hitl_flow.py) driving three stage   *)
(* calls through RateLimiter.execute_with_retry (rate_limiter.py), with    *)
(* the session record HITLSession and its persisted copy.                  *)
(***************************************************************************)
EXTENDS Integers, Sequences, FiniteSets, TLC

(***************************************************************************)
(* Bounds of the model.                                                    *)
(***************************************************************************)
\* largest max_iterations argument a run is started with
MaxIter == 2
\* the limiter's configured max_retries (RateLimitConfig.max_retries)
MaxRetries == 2
\* run_full_pipeline calls explored in one behaviour
MaxRuns == 2
\* cap on the limiter's lifetime request counter
MaxRequests == 4
\* the configured lifetime budget, when one is configured
Budget == 2

(***************************************************************************)
(* Optional values: None is the empty sequence, Some(v) the singleton.     *)
(***************************************************************************)
None == <<>>

Some(v) == <<v>>

(***************************************************************************)
(* Error texts, as sequences of words.  str.lower() maps each word to its  *)
(* lower-case form; `pat in msg` is the search for a contiguous run.       *)
(***************************************************************************)
Lower(w) ==
    CASE w = "RESOURCE_EXHAUSTED" -> "resource_exhausted"
      [] w = "Quota" -> "quota"
      [] w = "Rate" -> "rate"
      [] w = "Current" -> "current"
      [] w = "Retry" -> "retry"
      [] w = "Please" -> "please"
      [] OTHER -> w

LowerMsg(msg) == [i \in 1..Len(msg) |-> Lower(msg[i])]

Contains(msg, pat) ==
    \E i \in 1..(Len(msg) - Len(pat) + 1) : SubSeq(msg, i, i + Len(pat) - 1) = pat

\* the text raised by the flaky function of test_rate_limit_error_handling
Msg429 == <<"429", "RESOURCE_EXHAUSTED", "-", "Rate", "limit", "exceeded">>

MsgThrottle == <<"rate", "limit", "hit">>

MsgQuotaWarn == <<"quota", "metric", "throttled">>

MsgQuotaExceeded == <<"Quota", "exceeded">>

MsgResourceQuota == <<"429", "RESOURCE_EXHAUSTED", "check", "quota">>

MsgCurrentQuota == <<"exceeded", "your", "Current", "quota">>

MsgOther == <<"connection", "reset">>

ErrorMsgs ==
    {Msg429, MsgThrottle, MsgQuotaWarn, MsgQuotaExceeded, MsgResourceQuota,
     MsgCurrentQuota, MsgOther}

\* rate_limiter.py: is_rate_limit
is_rate_limit(error_msg) ==
    \/ Contains(error_msg, <<"429">>)
    \/ Contains(error_msg, <<"RESOURCE_EXHAUSTED">>)
    \/ Contains(LowerMsg(error_msg), <<"quota">>)
    \/ Contains(LowerMsg(error_msg), <<"rate", "limit">>)

\* rate_limiter.py: is_quota_exhausted
is_quota_exhausted(error_msg) ==
    \/ Contains(LowerMsg(error_msg), <<"quota", "exceeded">>)
    \/ Contains(LowerMsg(error_msg), <<"current", "quota">>)
    \/ (Contains(error_msg, <<"RESOURCE_EXHAUSTED">>)
        /\ Contains(LowerMsg(error_msg), <<"quota">>))

\* variant: an error that is no quota exhaustion is taken for throttling
Classify_RetryUnrelated(error_msg) ==
    IF is_quota_exhausted(error_msg) THEN "quota" ELSE "rate_limit"

\* variant: the throttling test is tried before the quota test
Classify_RateLimitFirst(error_msg) ==
    IF is_rate_limit(error_msg) THEN "rate_limit"
    ELSE IF is_quota_exhausted(error_msg) THEN "quota"
    ELSE "other"

\* the branch execute_with_retry takes for a caught error
Classify(error_msg) ==
    IF is_quota_exhausted(error_msg) THEN "quota"
    ELSE IF is_rate_limit(error_msg) THEN "rate_limit"
    ELSE "other"

TransientMsgs == {m \in ErrorMsgs : Classify(m) = "rate_limit"}

(***************************************************************************)
(* RateLimiter: configuration and statistics.                              *)
(***************************************************************************)
RateLimitConfig(budget) ==
    [max_retries |-> MaxRetries, max_api_calls |-> budget]

RateLimitStats ==
    [total_requests |-> 0, successful_requests |-> 0, failed_requests |-> 0,
     rate_limited_requests |-> 0]

\* RateLimiter.__init__
NewRateLimiter(budget) ==
    [config |-> RateLimitConfig(budget), stats |-> RateLimitStats,
     has_last_request |-> FALSE]

\* RateLimiter.check_budget
check_budget(rl) ==
    IF rl.config.max_api_calls = None THEN TRUE
    ELSE ~(rl.stats.total_requests >= rl.config.max_api_calls[1])

\* variant: a failed request is not counted as failed
log_request_FailureUncounted(rl, success) ==
    [rl EXCEPT !.has_last_request = TRUE,
               !.stats.total_requests = @ + 1,
               !.stats.successful_requests = IF success THEN @ + 1 ELSE @]

\* RateLimiter.log_request
log_request(rl, success) ==
    [rl EXCEPT !.has_last_request = TRUE,
               !.stats.total_requests = @ + 1,
               !.stats.successful_requests = IF success THEN @ + 1 ELSE @,
               !.stats.failed_requests = IF success THEN @ ELSE @ + 1]

\* variant: one retry fewer than max_retries
should_retry_OneFewer(rl, attempt) == ~(attempt + 1 >= rl.config.max_retries)

\* RateLimiter.handle_rate_limit_error: whether the caller may retry
should_retry(rl, attempt) == ~(attempt >= rl.config.max_retries)

\* RateLimiter.handle_rate_limit_error: its effect on the statistics
handle_rate_limit_error(rl) ==
    [rl EXCEPT !.stats.rate_limited_requests = @ + 1]

(***************************************************************************)
(* The stage executor as the limiter sees it: what each successive         *)
(* invocation of the call does.  An event is the call returning, the call  *)
(* raising an error with a text, or a KeyboardInterrupt arriving during    *)
(* the call or during the sleep that precedes it.  A call that is invoked  *)
(* more often than the behaviour is long repeats its last event.           *)
(***************************************************************************)
EvOk == [kind |-> "ok", msg |-> <<>>]

EvError(m) == [kind |-> "error", msg |-> m]

EvInterruptCall == [kind |-> "interrupt_call", msg |-> <<>>]

EvInterruptSleep == [kind |-> "interrupt_sleep", msg |-> <<>>]

FinalEvents ==
    {EvOk, EvInterruptCall, EvInterruptSleep} \cup {EvError(m) : m \in ErrorMsgs}

\* k throttled invocations (the text of the rate limiter's test), k <= MaxRetries,
\* and then any event
Behaviours ==
    { [i \in 1..k |-> EvError(Msg429)] \o <<ev>> : k \in 0..MaxRetries, ev \in FinalEvents }

EventAt(beh, n) == IF n <= Len(beh) THEN beh[n] ELSE beh[Len(beh)]

MsgBudgetExhausted == <<"API", "call", "budget", "exhausted">>

MsgQuotaExhausted == <<"API", "quota", "exhausted.", "Please", "add", "a", "fallback">>

Returned(rl, inv, sl) ==
    [outcome |-> "return", exc |-> "", text |-> <<>>, rl |-> rl,
     invocations |-> inv, sleeps |-> sl]

Raised(exc, text, rl, inv, sl) ==
    [outcome |-> "raise", exc |-> exc, text |-> text, rl |-> rl,
     invocations |-> inv, sleeps |-> sl]

\* variant: a throttled attempt is always retried
RetryAfterRateLimit_Always(rl, attempt) == TRUE

\* the except-branch of execute_with_retry that handles a throttling error:
\* TRUE when the loop goes round again
RetryAfterRateLimit(rl, attempt) == should_retry(rl, attempt)

\* the branch of execute_with_retry for an error classified as quota exhaustion
OnQuotaExhausted(rl, inv, sl) ==
    Raised("RuntimeError", MsgQuotaExhausted, log_request(rl, FALSE), inv, sl)

RECURSIVE RetryLoop(_, _, _, _, _)
\* the while loop of execute_with_retry, from `attempt` on; inv and sl count
\* the invocations of the call and the backoff sleeps made so far
RetryLoop(rl, beh, attempt, inv, sl) ==
    LET ev == EventAt(beh, inv + 1) IN
    IF ~(attempt <= rl.config.max_retries)
    THEN Raised("Exception", EventAt(beh, inv).msg, rl, inv, sl)
    ELSE CASE ev.kind = "ok" -> Returned(log_request(rl, TRUE), inv + 1, sl)
           [] ev.kind = "interrupt_call" ->
                Raised("KeyboardInterrupt", <<>>, rl, inv + 1, sl)
           [] ev.kind = "interrupt_sleep" ->
                \* the sleep before this invocation is the wait_if_needed sleep
                \* (first invocation, a request was logged before) or the
                \* backoff sleep; with no sleep to interrupt it hits the call
                IF inv = 0 /\ ~rl.has_last_request
                THEN Raised("KeyboardInterrupt", <<>>, rl, inv + 1, sl)
                ELSE Raised("KeyboardInterrupt", <<>>, rl, inv, sl)
           [] OTHER ->
                CASE Classify(ev.msg) = "quota" -> OnQuotaExhausted(rl, inv + 1, sl)
                  [] Classify(ev.msg) = "rate_limit" ->
                       LET rl1 == handle_rate_limit_error(log_request(rl, FALSE)) IN
                       IF RetryAfterRateLimit(rl1, attempt)
                       THEN RetryLoop(rl1, beh, attempt + 1, inv + 1, sl + 1)
                       ELSE Raised("Exception", ev.msg, rl1, inv + 1, sl)
                  [] OTHER ->
                       Raised("Exception", ev.msg, log_request(rl, FALSE), inv + 1, sl)

\* RateLimiter.execute_with_retry
execute_with_retry(rl, beh) ==
    IF ~check_budget(rl)
    THEN Raised("RuntimeError", MsgBudgetExhausted, rl, 0, 0)
    ELSE RetryLoop(rl, beh, 0, 0, 0)

(***************************************************************************)
(* HITLSession and the orchestrator's state.                               *)
(***************************************************************************)
VARIABLES
    session,          \* HITLOrchestrator.session, the in-memory HITLSession
    disk,             \* the persisted record hitl_session_<id>.json: None or Some(record)
    auto_approve,     \* HITLOrchestrator.auto_approve
    rate_limiter,     \* HITLOrchestrator.rate_limiter
    pc,               \* where run_full_pipeline stands
    max_iterations,   \* the max_iterations argument of the current run
    crew_feedback,    \* crew1_feedback / crew2_feedback / crew3_feedback of the current loop
    gate2_iterations, \* local counter of the gate 2 loop
    gate3_iterations, \* local counter of the gate 3 loop
    status,           \* the status returned, or the exception that left the run
    last_call,        \* the stage call just made: its behaviour, inputs and result
    runs,             \* run_full_pipeline calls made so far
    entry,            \* the counters and flags the current run was entered with
    decisions         \* the reviewer decisions given in the current run

\* the state of the components that are also exercised on their own: a
\* RateLimiter under a clock, and recovery.run_with_retry
VARIABLES
    clock,            \* time.time(), in whole seconds
    limiter,          \* a RateLimiter with its timing fields, or None
    lpc,              \* where that limiter's caller stands
    history,          \* what that limiter did: invocation times, waits, backoffs
    recovery          \* a call of run_with_retry: its arguments, locals and effects

pipeline_vars ==
    <<session, disk, auto_approve, rate_limiter, pc, max_iterations, crew_feedback,
      gate2_iterations, gate3_iterations, status, last_call, runs, entry, decisions>>

component_vars == <<clock, limiter, lpc, history, recovery>>

vars == <<pipeline_vars, component_vars>>

\* no component is exercised on its own
ComponentsOff ==
    /\ clock = 0
    /\ limiter = None
    /\ lpc = "off"
    /\ history = None
    /\ recovery = None

\* HITLSession as HITLOrchestrator.__init__ creates it
HITLSession(auto) ==
    [input_sources |-> "", auto_approve |-> auto,
     product_analysis |-> None, persona_library |-> None, content_strategy |-> None,
     generated_content |-> None, final_content |-> None,
     gate1_approved |-> FALSE, gate2_approved |-> FALSE, gate3_approved |-> FALSE,
     gate4_approved |-> FALSE, gate5_approved |-> FALSE,
     crew1_iterations |-> 0, crew2_iterations |-> 0, crew3_iterations |-> 0,
     completed_at |-> None]

\* HITLSession.save: the record is overwritten with every field of the session
save(s) == Some(s)

\* str.strip() on the inputs of the model
Strip(text) == IF text = " " THEN "" ELSE text

Inputs == {"", " ", "product"}

Decisions == {"approve", "reject", "edit", "feedback"}

FeedbackText == "make it shorter"

NoCall == [made |-> FALSE]

\* what a run remembers of the session it was entered with
AtEntry(s) ==
    [crew1_iterations |-> s.crew1_iterations, crew2_iterations |-> s.crew2_iterations,
     crew3_iterations |-> s.crew3_iterations, gate3_approved |-> s.gate3_approved,
     gate4_approved |-> s.gate4_approved, gate5_approved |-> s.gate5_approved]

Terminal == {"returned", "raised", "interrupted"}

RejectedAtGate ==
    <<"rejected_at_gate1", "rejected_at_gate2", "rejected_at_gate3",
      "rejected_at_gate4", "rejected_at_gate5">>

MaxIterationsGate ==
    <<"max_iterations_gate1", "max_iterations_gate2", "max_iterations_gate3",
      "max_iterations_gate4", "max_iterations_gate5">>

\* the budgets a limiter is configured with
Budgets == {None, Some(Budget)}

Init ==
    /\ auto_approve \in BOOLEAN
    /\ session = HITLSession(auto_approve)
    /\ disk = None
    /\ rate_limiter \in {NewRateLimiter(b) : b \in Budgets}
    /\ pc = "idle"
    /\ max_iterations = 0
    /\ crew_feedback = None
    /\ gate2_iterations = 0
    /\ gate3_iterations = 0
    /\ status = "none"
    /\ last_call = NoCall
    /\ runs = 0
    /\ entry = AtEntry(session)
    /\ decisions = {}
    /\ ComponentsOff

(***************************************************************************)
(* The three stage executions.  Each takes the session, the persisted      *)
(* record and the limiter, and gives them back with the way it ended:      *)
(* "return", "raise" (an Exception left it) or "interrupt" (a              *)
(* KeyboardInterrupt left it).                                             *)
(***************************************************************************)
Crew1Files == {"01_product_analysis.md", "02_persona_library.md", "03_content_strategy.md"}

\* what a stage 1 execution leaves in output/: every file, or all but one
FileSets == {Crew1Files} \cup {Crew1Files \ {f} : f \in Crew1Files}

\* the text an execution writes: tagged with its file and its iteration
Content(file, iteration) == Some(<<file, iteration>>)

\* the except clauses of run_crew1/2/3 around execute_with_retry: the record
\* that is on disk when the exception is re-raised
SaveBeforeRaise(s, d) == save(s)

\* the record on disk when a KeyboardInterrupt leaves the run (main's handler)
DiskAfterInterrupt(s, d) == d

\* run_crew1 after the call returned: output files missing or empty
OutputFilesMissing(s, d, res) ==
    [session |-> s, disk |-> d, res |-> res, outcome |-> "raise", exc |-> "RuntimeError"]

\* what leaves a run_crewN whose execute_with_retry raised
StageRaised(s, d, res) ==
    IF res.exc = "KeyboardInterrupt"
    THEN [session |-> s, disk |-> DiskAfterInterrupt(s, d), res |-> res,
          outcome |-> "interrupt", exc |-> "KeyboardInterrupt"]
    ELSE [session |-> s, disk |-> SaveBeforeRaise(s, d), res |-> res,
          outcome |-> "raise", exc |-> res.exc]

StageReturned(s, d, res) ==
    [session |-> s, disk |-> d, res |-> res, outcome |-> "return", exc |-> ""]

\* variant: run_crew1 leaves content_strategy as it was
run_crew1_KeepsStrategy(s, d, rl, beh, files) ==
    LET s1 == [s EXCEPT !.crew1_iterations = @ + 1]
        res == execute_with_retry(rl, beh)
    IN  IF res.outcome = "raise" THEN StageRaised(s1, d, res)
        ELSE IF files # Crew1Files THEN OutputFilesMissing(s1, d, res)
        ELSE StageReturned(
                 [s1 EXCEPT
                    !.product_analysis = Content("01_product_analysis.md", s1.crew1_iterations),
                    !.persona_library = Content("02_persona_library.md", s1.crew1_iterations)],
                 d, res)

\* HITLOrchestrator.run_crew1
run_crew1(s, d, rl, beh, files) ==
    LET s1 == [s EXCEPT !.crew1_iterations = @ + 1]
        res == execute_with_retry(rl, beh)
    IN  IF res.outcome = "raise" THEN StageRaised(s1, d, res)
        ELSE IF files # Crew1Files THEN OutputFilesMissing(s1, d, res)
        ELSE StageReturned(
                 [s1 EXCEPT
                    !.product_analysis = Content("01_product_analysis.md", s1.crew1_iterations),
                    !.persona_library = Content("02_persona_library.md", s1.crew1_iterations),
                    !.content_strategy = Content("03_content_strategy.md", s1.crew1_iterations)],
                 d, res)

\* variant: run_crew2 counts the executions whose call returned
run_crew2_CountsSuccess(s, d, rl, beh) ==
    LET res == execute_with_retry(rl, beh)
    IN  IF res.outcome = "raise" THEN StageRaised(s, d, res)
        ELSE StageReturned([s EXCEPT !.crew2_iterations = @ + 1], d, res)

\* HITLOrchestrator.run_crew2; the caller stores raw_result
run_crew2(s, d, rl, beh) ==
    LET s1 == [s EXCEPT !.crew2_iterations = @ + 1]
        res == execute_with_retry(rl, beh)
    IN  IF res.outcome = "raise" THEN StageRaised(s1, d, res)
        ELSE StageReturned(s1, d, res)

\* HITLOrchestrator.run_crew3; the caller stores polished_content
run_crew3(s, d, rl, beh) ==
    LET s1 == [s EXCEPT !.crew3_iterations = @ + 1]
        res == execute_with_retry(rl, beh)
    IN  IF res.outcome = "raise" THEN StageRaised(s1, d, res)
        ELSE StageReturned(s1, d, res)

\* the part of a stage execution that is the same for the three stages: the
\* limiter, the persisted record, and where control goes
StageStep(r, crew, beh, guidance, next) ==
    /\ r.res.rl.stats.total_requests <= MaxRequests
    /\ rate_limiter' = r.res.rl
    /\ disk' = r.disk
    /\ last_call' = [made |-> TRUE, crew |-> crew, beh |-> beh, guidance |-> guidance,
                     outcome |-> r.res.outcome, exc |-> r.res.exc, text |-> r.res.text,
                     invocations |-> r.res.invocations, sleeps |-> r.res.sleeps,
                     before |-> rate_limiter]
    /\ pc' = CASE r.outcome = "return" -> next
               [] r.outcome = "interrupt" -> "interrupted"
               [] OTHER -> "raised"
    /\ status' = IF r.outcome = "return" THEN status ELSE r.exc

\* a return statement of run_full_pipeline
Return(result) ==
    /\ pc' = "returned"
    /\ status' = result

(***************************************************************************)
(* run_full_pipeline, one action per stretch of code between two blocking  *)
(* points (a stage call, a reviewer decision).                             *)
(***************************************************************************)
GateApproved(s, k) ==
    CASE k = 1 -> s.gate1_approved
      [] k = 2 -> s.gate2_approved
      [] k = 3 -> s.gate3_approved
      [] k = 4 -> s.gate4_approved
      [] k = 5 -> s.gate5_approved

\* variant: approving gate k clears the flag of the gate before it
ApproveGate_ClearsPrevious(s, k) ==
    CASE k = 1 -> [s EXCEPT !.gate1_approved = TRUE]
      [] k = 2 -> [s EXCEPT !.gate2_approved = TRUE, !.gate1_approved = FALSE]
      [] k = 3 -> [s EXCEPT !.gate3_approved = TRUE, !.gate2_approved = FALSE]
      [] k = 4 -> [s EXCEPT !.gate4_approved = TRUE, !.gate3_approved = FALSE]
      [] k = 5 -> [s EXCEPT !.gate5_approved = TRUE, !.gate4_approved = FALSE]

\* self.session.gateK_approved = True
ApproveGate(s, k) ==
    CASE k = 1 -> [s EXCEPT !.gate1_approved = TRUE]
      [] k = 2 -> [s EXCEPT !.gate2_approved = TRUE]
      [] k = 3 -> [s EXCEPT !.gate3_approved = TRUE]
      [] k = 4 -> [s EXCEPT !.gate4_approved = TRUE]
      [] k = 5 -> [s EXCEPT !.gate5_approved = TRUE]

\* the record on disk after the approval branch of gate k
SaveAfterApproval(s, d) == save(s)

\* the record on disk when a reject branch returns
DiskAfterReject(s, d) == d

\* the record on disk when a max-iterations branch returns
DiskAfterMaxIterations(s, d) == d

\* variant: the Stage 1 block tests the flag of gate 4
SkipCrew1_WrongGate(s) == s.gate4_approved

\* variant: the Stage 1 block is skipped as soon as gate 1 is approved
SkipCrew1_AfterGate1(s) == s.gate1_approved

\* the skip tests that open the three stage blocks
SkipCrew1(s) == s.gate3_approved

SkipCrew2(s) == s.gate4_approved

\* variant: the Stage 3 block is never skipped
SkipCrew3_Never(s) == FALSE

SkipCrew3(s) == s.gate5_approved

\* the cap tests of the gate 1, gate 4 and gate 5 loops
Crew1AtCap(s, mi) == s.crew1_iterations >= mi

\* variant: the Stage 2 loop stops one execution early
Crew2AtCap_OneEarly(s, mi) == s.crew2_iterations + 1 >= mi

Crew2AtCap(s, mi) == s.crew2_iterations >= mi

Crew3AtCap(s, mi) == s.crew3_iterations >= mi

\* the cap tests of the gate 2 and gate 3 loops, on their local counters
Gate2AtCap(s, local, mi) == local >= mi

\* variant: the gate 3 loop has no cap
Gate3AtCap_Never(s, local, mi) == FALSE

Gate3AtCap(s, local, mi) == local >= mi

\* variant: the reviewer is asked in auto-approve mode as well
get_approval_AskAlways(auto, answer) == answer

\* HITLOrchestrator._get_approval: the decision it returns when the reviewer,
\* if asked, answers `answer`
get_approval(auto, answer) == IF auto THEN "approve" ELSE answer

Answers == Decisions \cup {"interrupt"}

\* variant: the input is tested without strip()
InputInvalid_NoStrip(input_sources, mi) == input_sources = "" \/ mi < 1

\* the validation that opens run_full_pipeline
InputInvalid(input_sources, mi) == Strip(input_sources) = "" \/ mi < 1

StartRun(input_sources, mi, stale_exit) ==
    /\ pc = "idle"
    /\ runs < MaxRuns
    /\ runs' = runs + 1
    /\ max_iterations' = mi
    /\ IF InputInvalid(input_sources, mi)
       THEN /\ session' = session
            /\ pc' = "raised"
            /\ status' = "ValueError"
       ELSE /\ session' = [session EXCEPT !.input_sources = input_sources]
            /\ IF session.crew1_iterations = 0 /\ stale_exit
               THEN pc' = "raised" /\ status' = "SystemExit"
               ELSE pc' = "crew1_block" /\ status' = "none"
    /\ entry' = AtEntry(session')
    /\ decisions' = {}
    /\ last_call' = NoCall
    /\ crew_feedback' = None
    /\ gate2_iterations' = 0
    /\ gate3_iterations' = 0
    /\ UNCHANGED <<disk, auto_approve, rate_limiter>>
    /\ UNCHANGED component_vars

Crew1Block ==
    /\ pc = "crew1_block"
    /\ pc' = IF SkipCrew1(session) THEN "crew2_block" ELSE "gate1_loop"
    /\ crew_feedback' = None
    /\ UNCHANGED <<session, disk, auto_approve, rate_limiter, max_iterations,
                   gate2_iterations, gate3_iterations, status, last_call, runs,
                   entry, decisions>>
    /\ UNCHANGED component_vars

Gate1Loop ==
    /\ pc = "gate1_loop"
    /\ IF Crew1AtCap(session, max_iterations)
       THEN /\ Return(MaxIterationsGate[1])
            /\ disk' = DiskAfterMaxIterations(session, disk)
            /\ UNCHANGED <<session, rate_limiter, last_call>>
       ELSE \E beh \in Behaviours, files \in FileSets :
            LET r == run_crew1(session, disk, rate_limiter, beh, files) IN
            /\ StageStep(r, 1, beh, crew_feedback, "gate1_ask")
            /\ session' = r.session
    /\ UNCHANGED <<auto_approve, max_iterations, crew_feedback, gate2_iterations,
                   gate3_iterations, runs, entry, decisions>>
    /\ UNCHANGED component_vars

Gate1Ask(answer) ==
    LET decision == get_approval(auto_approve, answer) IN
    /\ pc = "gate1_ask"
    /\ decisions' = decisions \cup {decision}
    /\ last_call' = NoCall
    /\ CASE decision = "interrupt" ->
              /\ pc' = "interrupted" /\ status' = "KeyboardInterrupt"
              /\ disk' = DiskAfterInterrupt(session, disk)
              /\ UNCHANGED <<session, crew_feedback, gate2_iterations>>
         [] decision = "reject" ->
              /\ Return(RejectedAtGate[1])
              /\ disk' = DiskAfterReject(session, disk)
              /\ UNCHANGED <<session, crew_feedback, gate2_iterations>>
         [] decision \in {"edit", "feedback"} ->
              /\ crew_feedback' = Some(FeedbackText)
              /\ pc' = "gate1_loop"
              /\ UNCHANGED <<session, disk, status, gate2_iterations>>
         [] OTHER ->
              /\ session' = ApproveGate(session, 1)
              /\ disk' = SaveAfterApproval(session', disk)
              /\ gate2_iterations' = 0
              /\ pc' = "gate2_ask"
              /\ UNCHANGED <<status, crew_feedback>>
    /\ UNCHANGED <<auto_approve, rate_limiter, max_iterations, gate3_iterations,
                   runs, entry>>
    /\ UNCHANGED component_vars

Gate2Ask(answer) ==
    LET decision == get_approval(auto_approve, answer) IN
    /\ pc = "gate2_ask"
    /\ decisions' = decisions \cup {decision}
    /\ CASE decision = "interrupt" ->
              /\ pc' = "interrupted" /\ status' = "KeyboardInterrupt"
              /\ disk' = DiskAfterInterrupt(session, disk)
              /\ last_call' = NoCall
              /\ UNCHANGED <<session, rate_limiter, gate2_iterations, gate3_iterations>>
         [] decision = "reject" ->
              /\ Return(RejectedAtGate[2])
              /\ disk' = DiskAfterReject(session, disk)
              /\ last_call' = NoCall
              /\ UNCHANGED <<session, rate_limiter, gate2_iterations, gate3_iterations>>
         [] decision \in {"edit", "feedback"} ->
              IF Gate2AtCap(session, gate2_iterations, max_iterations)
              THEN /\ Return(MaxIterationsGate[2])
                   /\ disk' = DiskAfterMaxIterations(session, disk)
                   /\ last_call' = NoCall
                   /\ UNCHANGED <<session, rate_limiter, gate2_iterations,
                                  gate3_iterations>>
              ELSE \E beh \in Behaviours, files \in FileSets :
                   LET r == run_crew1(session, disk, rate_limiter, beh, files) IN
                   /\ StageStep(r, 1, beh, Some(FeedbackText), "gate2_ask")
                   /\ session' = r.session
                   /\ gate2_iterations' =
                          IF r.outcome = "return" THEN gate2_iterations + 1
                          ELSE gate2_iterations
                   /\ UNCHANGED gate3_iterations
         [] OTHER ->
              /\ session' = ApproveGate(session, 2)
              /\ disk' = SaveAfterApproval(session', disk)
              /\ last_call' = NoCall
              /\ pc' = "gate3_ask"
              /\ gate3_iterations' = 0 /\ UNCHANGED gate2_iterations
              /\ UNCHANGED <<status, rate_limiter>>
    /\ UNCHANGED <<auto_approve, max_iterations, crew_feedback, runs, entry>>
    /\ UNCHANGED component_vars

Gate3Ask(answer) ==
    LET decision == get_approval(auto_approve, answer) IN
    /\ pc = "gate3_ask"
    /\ decisions' = decisions \cup {decision}
    /\ CASE decision = "interrupt" ->
              /\ pc' = "interrupted" /\ status' = "KeyboardInterrupt"
              /\ disk' = DiskAfterInterrupt(session, disk)
              /\ last_call' = NoCall
              /\ UNCHANGED <<session, rate_limiter, gate2_iterations, gate3_iterations>>
         [] decision = "reject" ->
              /\ Return(RejectedAtGate[3])
              /\ disk' = DiskAfterReject(session, disk)
              /\ last_call' = NoCall
              /\ UNCHANGED <<session, rate_limiter, gate2_iterations, gate3_iterations>>
         [] decision \in {"edit", "feedback"} ->
              IF Gate3AtCap(session, gate3_iterations, max_iterations)
              THEN /\ Return(MaxIterationsGate[3])
                   /\ disk' = DiskAfterMaxIterations(session, disk)
                   /\ last_call' = NoCall
                   /\ UNCHANGED <<session, rate_limiter, gate2_iterations,
                                  gate3_iterations>>
              ELSE \E beh \in Behaviours, files \in FileSets :
                   LET r == run_crew1(session, disk, rate_limiter, beh, files) IN
                   /\ StageStep(r, 1, beh, Some(FeedbackText), "gate3_ask")
                   /\ session' = r.session
                   /\ gate3_iterations' =
                          IF r.outcome = "return" THEN gate3_iterations + 1
                          ELSE gate3_iterations
                   /\ UNCHANGED gate2_iterations
         [] OTHER ->
              /\ session' = ApproveGate(session, 3)
              /\ disk' = SaveAfterApproval(session', disk)
              /\ last_call' = NoCall
              /\ pc' = "crew2_block"
              /\ UNCHANGED <<gate2_iterations, gate3_iterations>>
              /\ UNCHANGED <<status, rate_limiter>>
    /\ UNCHANGED <<auto_approve, max_iterations, crew_feedback, runs, entry>>
    /\ UNCHANGED component_vars

Crew2Block ==
    /\ pc = "crew2_block"
    /\ pc' = IF SkipCrew2(session) THEN "crew3_block" ELSE "gate4_loop"
    /\ crew_feedback' = None
    /\ UNCHANGED <<session, disk, auto_approve, rate_limiter, max_iterations,
                   gate2_iterations, gate3_iterations, status, last_call, runs,
                   entry, decisions>>
    /\ UNCHANGED component_vars

Gate4Loop ==
    /\ pc = "gate4_loop"
    /\ IF Crew2AtCap(session, max_iterations)
       THEN /\ Return(MaxIterationsGate[4])
            /\ disk' = DiskAfterMaxIterations(session, disk)
            /\ UNCHANGED <<session, rate_limiter, last_call>>
       ELSE \E beh \in Behaviours :
            LET r == run_crew2(session, disk, rate_limiter, beh) IN
            /\ StageStep(r, 2, beh, crew_feedback, "gate4_ask")
            /\ session' =
                   IF r.outcome = "return"
                   THEN [r.session EXCEPT
                           !.generated_content = Content("raw_result", r.session.crew2_iterations)]
                   ELSE r.session
    /\ UNCHANGED <<auto_approve, max_iterations, crew_feedback, gate2_iterations,
                   gate3_iterations, runs, entry, decisions>>
    /\ UNCHANGED component_vars

Gate4Ask(answer) ==
    LET decision == get_approval(auto_approve, answer) IN
    /\ pc = "gate4_ask"
    /\ decisions' = decisions \cup {decision}
    /\ last_call' = NoCall
    /\ CASE decision = "interrupt" ->
              /\ pc' = "interrupted" /\ status' = "KeyboardInterrupt"
              /\ disk' = DiskAfterInterrupt(session, disk)
              /\ UNCHANGED <<session, crew_feedback>>
         [] decision = "reject" ->
              /\ Return(RejectedAtGate[4])
              /\ disk' = DiskAfterReject(session, disk)
              /\ UNCHANGED <<session, crew_feedback>>
         [] decision \in {"edit", "feedback"} ->
              /\ crew_feedback' = Some(FeedbackText)
              /\ pc' = "gate4_loop"
              /\ UNCHANGED <<session, disk, status>>
         [] OTHER ->
              /\ session' = ApproveGate(session, 4)
              /\ disk' = SaveAfterApproval(session', disk)
              /\ pc' = "crew3_block"
              /\ UNCHANGED <<status, crew_feedback>>
    /\ UNCHANGED <<auto_approve, rate_limiter, max_iterations, gate2_iterations,
                   gate3_iterations, runs, entry>>
    /\ UNCHANGED component_vars

Crew3Block ==
    /\ pc = "crew3_block"
    /\ pc' = IF SkipCrew3(session) THEN "complete" ELSE "gate5_loop"
    /\ crew_feedback' = None
    /\ UNCHANGED <<session, disk, auto_approve, rate_limiter, max_iterations,
                   gate2_iterations, gate3_iterations, status, last_call, runs,
                   entry, decisions>>
    /\ UNCHANGED component_vars

Gate5Loop ==
    /\ pc = "gate5_loop"
    /\ IF Crew3AtCap(session, max_iterations)
       THEN /\ Return(MaxIterationsGate[5])
            /\ disk' = DiskAfterMaxIterations(session, disk)
            /\ UNCHANGED <<session, rate_limiter, last_call>>
       ELSE \E beh \in Behaviours :
            LET r == run_crew3(session, disk, rate_limiter, beh) IN
            /\ StageStep(r, 3, beh, crew_feedback, "gate5_ask")
            /\ session' =
                   IF r.outcome = "return"
                   THEN [r.session EXCEPT
                           !.final_content = Content("polished_content", r.session.crew3_iterations)]
                   ELSE r.session
    /\ UNCHANGED <<auto_approve, max_iterations, crew_feedback, gate2_iterations,
                   gate3_iterations, runs, entry, decisions>>
    /\ UNCHANGED component_vars

Gate5Ask(answer) ==
    LET decision == get_approval(auto_approve, answer) IN
    /\ pc = "gate5_ask"
    /\ decisions' = decisions \cup {decision}
    /\ last_call' = NoCall
    /\ CASE decision = "interrupt" ->
              /\ pc' = "interrupted" /\ status' = "KeyboardInterrupt"
              /\ disk' = DiskAfterInterrupt(session, disk)
              /\ UNCHANGED <<session, crew_feedback>>
         [] decision = "reject" ->
              /\ Return(RejectedAtGate[5])
              /\ disk' = DiskAfterReject(session, disk)
              /\ UNCHANGED <<session, crew_feedback>>
         [] decision \in {"edit", "feedback"} ->
              /\ crew_feedback' = Some(FeedbackText)
              /\ pc' = "gate5_loop"
              /\ UNCHANGED <<session, disk, status>>
         [] OTHER ->
              /\ session' = ApproveGate(session, 5)
              /\ disk' = SaveAfterApproval(session', disk)
              /\ pc' = "complete"
              /\ UNCHANGED <<status, crew_feedback>>
    /\ UNCHANGED <<auto_approve, rate_limiter, max_iterations, gate2_iterations,
                   gate3_iterations, runs, entry>>
    /\ UNCHANGED component_vars

\* datetime.now() as the pipeline completes: the number of the run
Now == runs

\* the record on disk after the closing save of run_full_pipeline
SaveAtCompletion(s, d) == save(s)

Complete ==
    /\ pc = "complete"
    /\ session' = [session EXCEPT !.completed_at = Some(Now)]
    /\ disk' = SaveAtCompletion(session', disk)
    /\ Return("completed")
    /\ last_call' = NoCall
    /\ UNCHANGED <<auto_approve, rate_limiter, max_iterations, crew_feedback,
                   gate2_iterations, gate3_iterations, runs, entry, decisions>>
    /\ UNCHANGED component_vars

\* HITLOrchestrator._load_session on the record the orchestrator persisted
load_session(d) == d[1]

\* a new process: HITLOrchestrator(session_id=...) with a limiter of its own
Resume(auto, budget) ==
    /\ pc \in Terminal
    /\ runs < MaxRuns
    /\ disk # None
    /\ Strip(load_session(disk).input_sources) # ""
    /\ session' = load_session(disk)
    /\ auto_approve' = auto
    /\ rate_limiter' = NewRateLimiter(budget)
    /\ pc' = "idle"
    /\ status' = "none"
    /\ last_call' = NoCall
    /\ crew_feedback' = None
    /\ gate2_iterations' = 0
    /\ gate3_iterations' = 0
    /\ max_iterations' = 0
    /\ entry' = AtEntry(session')
    /\ decisions' = {}
    /\ UNCHANGED <<disk, runs>>
    /\ UNCHANGED component_vars

MaxIterationsArgs == 0..MaxIter

Next ==
    \/ \E i \in Inputs, mi \in MaxIterationsArgs, stale_exit \in BOOLEAN :
           StartRun(i, mi, stale_exit)
    \/ Crew1Block
    \/ Gate1Loop
    \/ \E a \in Answers : Gate1Ask(a)
    \/ \E a \in Answers : Gate2Ask(a)
    \/ \E a \in Answers : Gate3Ask(a)
    \/ Crew2Block
    \/ Gate4Loop
    \/ \E a \in Answers : Gate4Ask(a)
    \/ Crew3Block
    \/ Gate5Loop
    \/ \E a \in Answers : Gate5Ask(a)
    \/ Complete
    \/ Resume(auto_approve, rate_limiter.config.max_api_calls)

Spec == Init /\ [][Next]_vars

\* an orchestrator with the default limiter, which has no lifetime budget
InitLive == Init /\ rate_limiter = NewRateLimiter(None)

\* run_full_pipeline is one sequential thread: a step that can be taken (the
\* stage call comes back, the reviewer answers) is taken
SpecLive == InitLive /\ [][Next]_vars /\ WF_vars(Next)

(***************************************************************************)
(* A RateLimiter under a clock: wait_if_needed, log_request and the        *)
(* backoff of handle_rate_limit_error with the times they read and spend.  *)
(***************************************************************************)
\* execute_with_retry calls and wait/log rounds made on the timed limiter
MaxCalls == 3

\* the longest time that passes after a request before the next call arrives
MaxIdle == 6

\* max_retries of the timed limiter
TimedRetries == 1

\* wait_if_needed: the length of the sliding window, in seconds
Window == 60

\* RateLimitStats.request_times: deque(maxlen=100)
RingLen == 100

MsgRetryIn2 == <<"429", "Please", "retry", "in", "2s.">>

MsgRetryIn7 == <<"429", "Please", "retry", "in", "7s.">>

MsgRetryCapital == <<"429", "Retry", "in", "7s.">>

MsgRetrySoon == <<"429", "retry", "in", "soon">>

TimedMsgs ==
    {Msg429, MsgRetryIn2, MsgRetryIn7, MsgRetryCapital, MsgRetrySoon,
     MsgQuotaExceeded, MsgOther}

Min(a, b) == IF a <= b THEN a ELSE b

Max(a, b) == IF a >= b THEN a ELSE b

RECURSIVE Pow(_, _)
Pow(b, e) == IF e = 0 THEN 1 ELSE b * Pow(b, e - 1)

\* float(text.split("s")[0].strip()): None stands for the ValueError
ParseFloat(tok) ==
    CASE tok = "2s." -> Some(2)
      [] tok = "7s." -> Some(7)
      [] OTHER -> None

\* handle_rate_limit_error: the delay read from the error text, if any;
\* the test is made on the lowered text, the split on the text as it is
suggested_delay(error_msg) ==
    IF ~Contains(LowerMsg(error_msg), <<"retry", "in">>) THEN None
    ELSE IF ~Contains(error_msg, <<"retry", "in">>) THEN None
    ELSE LET i == CHOOSE i \in 1..(Len(error_msg) - 1) :
                      /\ error_msg[i] = "retry" /\ error_msg[i + 1] = "in"
                      /\ \A j \in 1..(i - 1) :
                             ~(error_msg[j] = "retry" /\ error_msg[j + 1] = "in")
         IN  IF i + 2 > Len(error_msg) THEN None ELSE ParseFloat(error_msg[i + 2])

\* handle_rate_limit_error: the exponential backoff of a 0-indexed attempt
exponential_backoff(cfg, attempt) ==
    Min(cfg.initial_backoff * Pow(cfg.backoff_multiplier, attempt), cfg.max_backoff)

\* handle_rate_limit_error: wait_time, the delay it sleeps
backoff_delay(cfg, attempt, error_msg) ==
    LET wait_time == exponential_backoff(cfg, attempt)
        suggested == suggested_delay(error_msg)
    IN  IF suggested = None THEN wait_time ELSE Max(wait_time, suggested[1])

Gaps == {0, 5}

Rpms == {1, 2}

InitialBackoffs == {1, 3}

TimingConfigs ==
    [min_request_gap : Gaps, requests_per_minute : Rpms,
     initial_backoff : InitialBackoffs, backoff_multiplier : {2}, max_backoff : {4}]

\* RateLimiter.__init__, with the fields that hold times
NewTimedLimiter(cfg) ==
    [rl |-> [NewRateLimiter(None) EXCEPT !.config.max_retries = TimedRetries],
     timing |-> cfg, last_request_time |-> None,
     request_times |-> <<>>, total_wait_time |-> 0, total_retry_time |-> 0]

\* deque.append on a deque of maxlen RingLen
RingAppend(ring, t) ==
    IF Len(ring) >= RingLen THEN Append(Tail(ring), t) ELSE Append(ring, t)

\* variant: only the per-minute window is enforced, not the minimum gap
wait_if_needed_WindowOnly(l, now) ==
    IF l.last_request_time = None THEN 0
    ELSE IF Len(l.request_times) >= l.timing.requests_per_minute
         THEN LET time_window == now - l.request_times[1] IN
              IF time_window < Window THEN Window - time_window ELSE 0
         ELSE 0

\* RateLimiter.wait_if_needed: the time it sleeps when called at `now`
wait_if_needed(l, now) ==
    IF l.last_request_time = None THEN 0
    ELSE LET time_since_last == now - l.last_request_time[1] IN
         IF time_since_last < l.timing.min_request_gap
         THEN l.timing.min_request_gap - time_since_last
         ELSE IF Len(l.request_times) >= l.timing.requests_per_minute
              THEN LET time_window == now - l.request_times[1] IN
                   IF time_window < Window THEN Window - time_window ELSE 0
              ELSE 0

\* RateLimiter.wait_if_needed: its effect on the statistics
AfterWait(l, wait_time) == [l EXCEPT !.total_wait_time = @ + wait_time]

\* RateLimiter.log_request at time `now`
timed_log_request(l, now, success) ==
    [l EXCEPT !.rl = log_request(@, success),
              !.last_request_time = Some(now),
              !.request_times = RingAppend(@, now)]

\* error_msg is the text of the errors the wrapped call raises
NoHistory(error_msg) ==
    [error_msg |-> error_msg, started |-> 0, completed |-> 0, first_start |-> None, last_wait |-> None,
     last_invocation |-> None, spacing |-> None, last_backoff |-> None]

\* the step by which time passes between two calls
ElapseStep == 3

\* the pipeline is not running
PipelineOff ==
    /\ auto_approve = FALSE
    /\ session = HITLSession(FALSE)
    /\ disk = None
    /\ rate_limiter = NewRateLimiter(None)
    /\ pc = "off"
    /\ max_iterations = 0
    /\ crew_feedback = None
    /\ gate2_iterations = 0
    /\ gate3_iterations = 0
    /\ status = "none"
    /\ last_call = NoCall
    /\ runs = 0
    /\ entry = AtEntry(session)
    /\ decisions = {}

InitLimiter ==
    /\ PipelineOff
    /\ clock = 0
    /\ limiter \in {NewTimedLimiter(cfg) : cfg \in TimingConfigs}
    /\ lpc = [pc |-> "ready", attempt |-> 0, after_wait |-> FALSE]
    /\ history \in {NoHistory(m) : m \in TimedMsgs}
    /\ recovery = None

\* the entry of a call or round: wait_if_needed, and what it is recorded to do
EnterWait(next) ==
    LET wait_time == wait_if_needed(limiter, clock) IN
    /\ lpc.pc = "ready"
    /\ history.started < MaxCalls
    /\ clock' = clock + wait_time
    /\ limiter' = AfterWait(limiter, wait_time)
    /\ lpc' = [pc |-> next, attempt |-> 0, after_wait |-> TRUE]
    /\ history' = [history EXCEPT
           !.started = @ + 1,
           !.first_start = IF @ = None THEN Some(clock) ELSE @,
           !.last_wait = Some([first |-> limiter.last_request_time = None,
                               elapsed |-> IF limiter.last_request_time = None THEN 0
                                           ELSE clock - limiter.last_request_time[1],
                               wait |-> wait_time])]

\* execute_with_retry up to its loop: the budget check and wait_if_needed
TBegin ==
    /\ check_budget(limiter.rl)
    /\ EnterWait("invoke")
    /\ UNCHANGED <<pipeline_vars, recovery>>

\* one turn of the loop of execute_with_retry: the call, made at `clock` (it
\* takes no time of its own, the least spacing a run can show), then
\* log_request and, for a throttling error, the backoff
TInvoke(ev) ==
    LET done == clock
        attempt == lpc.attempt
        kind == IF ev.kind = "ok" THEN "ok" ELSE Classify(ev.msg)
        logged == timed_log_request(limiter, done, kind = "ok")
        counted == [logged EXCEPT !.rl = handle_rate_limit_error(@)]
        retry == kind = "rate_limit" /\ RetryAfterRateLimit(counted.rl, attempt)
        wait_time == backoff_delay(limiter.timing, attempt, ev.msg)
    IN
    /\ lpc.pc = "invoke"
    /\ attempt <= limiter.rl.config.max_retries
    /\ limiter' = IF kind = "rate_limit"
                  THEN IF retry THEN [counted EXCEPT !.total_retry_time = @ + wait_time]
                       ELSE counted
                  ELSE logged
    /\ clock' = IF retry THEN done + wait_time ELSE done
    /\ lpc' = IF retry THEN [pc |-> "invoke", attempt |-> attempt + 1, after_wait |-> FALSE]
              ELSE [pc |-> "ready", attempt |-> 0, after_wait |-> FALSE]
    /\ history' = [history EXCEPT
           !.completed = IF retry THEN @ ELSE @ + 1,
           !.last_invocation = Some(clock),
           !.spacing = IF history.last_invocation = None THEN None
                       ELSE Some(clock - history.last_invocation[1]),
           !.last_backoff = IF retry
                            THEN Some([attempt |-> attempt, msg |-> ev.msg,
                                       wait |-> wait_time])
                            ELSE None]
    /\ UNCHANGED <<pipeline_vars, recovery>>

\* the round of test_basic_rate_limiting, first half: wait_if_needed
TWait ==
    /\ EnterWait("waited")
    /\ UNCHANGED <<pipeline_vars, recovery>>

\* the round of test_basic_rate_limiting, second half: log_request(success=True)
TLog ==
    /\ lpc.pc = "waited"
    /\ limiter' = timed_log_request(limiter, clock, TRUE)
    /\ lpc' = [pc |-> "ready", attempt |-> 0, after_wait |-> FALSE]
    /\ history' = [history EXCEPT !.completed = @ + 1]
    /\ UNCHANGED <<pipeline_vars, clock, recovery>>

\* time passes between two calls
Elapse ==
    /\ lpc.pc = "ready"
    /\ clock + ElapseStep
         <= (IF limiter.last_request_time = None THEN 0
             ELSE limiter.last_request_time[1]) + MaxIdle
    /\ clock' = clock + ElapseStep
    /\ UNCHANGED <<pipeline_vars, limiter, lpc, history, recovery>>

NextLimiter ==
    \/ TBegin
    \/ \E ev \in {EvOk, EvError(history.error_msg)} : TInvoke(ev)
    \/ TWait
    \/ TLog
    \/ Elapse

SpecLimiter == InitLimiter /\ [][NextLimiter]_vars

(***************************************************************************)
(* recovery.run_with_retry, one action per turn of its for loop.           *)
(***************************************************************************)
\* the largest max_retries given to run_with_retry
RecoveryRetries == 3

InitialDelays == {1, 5}

BackoffFactors == {2, 3}

\* run_with_retry entered with its arguments; crew_name and output_dir are
\* TRUE when the caller gave them (they default to None)
NewRecovery(max_retries, initial_delay, backoff_factor, crew_name, output_dir) ==
    [max_retries |-> max_retries, initial_delay |-> initial_delay,
     backoff_factor |-> backoff_factor, crew_name |-> crew_name,
     output_dir |-> output_dir,
     pc |-> "loop", attempt |-> 0, delay |-> initial_delay, last_exception |-> None,
     invoked |-> <<>>, slept |-> <<>>, snapshots |-> 0, raised |-> None]

\* variant: the attempt before the last is taken for the last as well
IsLastAttempt_OneEarly(r) == ~(r.attempt < r.max_retries - 2)

\* run_with_retry: the else of `if attempt < max_retries - 1`
IsLastAttempt(r) == ~(r.attempt < r.max_retries - 1)

\* run_with_retry: `if crew_name and output_dir`
SavesPartialResults(r) == r.crew_name /\ r.output_dir

\* raise RecoveryError(...) from last_exception
RecoveryError(r) ==
    Some([exc |-> "RecoveryError", attempts |-> r.max_retries,
          cause |-> r.last_exception])

\* what func does when run_with_retry invokes it; an interrupt_sleep is a
\* failure of func followed by a KeyboardInterrupt during time.sleep(delay)
RecoveryEvents == {EvOk, EvError(MsgOther), EvError(Msg429), EvInterruptCall, EvInterruptSleep}

InitRecovery ==
    /\ PipelineOff
    /\ clock = 0
    /\ limiter = None
    /\ lpc = "off"
    /\ history = None
    /\ recovery \in {NewRecovery(n, d, f, c, o) :
                       n \in 0..RecoveryRetries, d \in InitialDelays,
                       f \in BackoffFactors, c \in BOOLEAN, o \in BOOLEAN}

\* one turn of the for loop: func is invoked and ends as ev says
RAttempt(ev) ==
    LET r == recovery
        failed == [r EXCEPT !.invoked = Append(@, ev),
                            !.last_exception =
                                Some(IF ev.kind = "error" THEN ev.msg ELSE MsgOther)]
    IN
    /\ r.pc = "loop"
    /\ r.attempt < r.max_retries
    /\ ev.kind = "interrupt_sleep" => ~IsLastAttempt(r)
    /\ recovery' =
         CASE ev.kind = "ok" -> [r EXCEPT !.invoked = Append(@, ev), !.pc = "returned"]
           [] ev.kind = "interrupt_call" ->
                [r EXCEPT !.invoked = Append(@, ev), !.pc = "interrupted"]
           [] ev.kind = "interrupt_sleep" -> [failed EXCEPT !.pc = "interrupted"]
           [] OTHER ->
                IF ~IsLastAttempt(r)
                THEN [failed EXCEPT !.slept = Append(@, r.delay),
                                    !.delay = @ * r.backoff_factor,
                                    !.attempt = @ + 1]
                ELSE [failed EXCEPT !.snapshots =
                                        IF SavesPartialResults(r) THEN @ + 1 ELSE @,
                                    !.attempt = @ + 1]
    /\ clock' = IF ev.kind = "error" /\ ~IsLastAttempt(r) THEN clock + r.delay ELSE clock
    /\ UNCHANGED <<pipeline_vars, limiter, lpc, history>>

\* the statement after the loop: all attempts are used up
RRaise ==
    /\ recovery.pc = "loop"
    /\ ~(recovery.attempt < recovery.max_retries)
    /\ recovery' = [recovery EXCEPT !.pc = "raised", !.raised = RecoveryError(recovery)]
    /\ UNCHANGED <<pipeline_vars, clock, limiter, lpc, history>>

NextRecovery ==
    \/ \E ev \in RecoveryEvents : RAttempt(ev)
    \/ RRaise

SpecRecovery == InitRecovery /\ [][NextRecovery]_vars

(***************************************************************************)
(* HITLOrchestrator(session_id=...): the constructor reads the record file *)
(* of the session through _load_session.                                   *)
(***************************************************************************)
\* session_id and started_at, which the session of the pipeline above leaves out
IdentityFields == {"session_id", "started_at"}

SessionFields == DOMAIN HITLSession(FALSE)

AllFields == IdentityFields \cup SessionFields

\* the fields of the dataclass HITLSession that have no default value
RequiredFields == IdentityFields \cup {"input_sources", "auto_approve"}

\* dataclasses.asdict(session), the object json.dump writes
asdict(s) ==
    [f \in AllFields |-> IF f \in IdentityFields THEN "20251104_100000" ELSE s[f]]

\* sessions whose records are on disk: one just created, one after gate 1
SavedSessions ==
    {[HITLSession(FALSE) EXCEPT !.input_sources = i] : i \in Inputs} \cup
    {[HITLSession(FALSE) EXCEPT
        !.input_sources = i, !.crew1_iterations = 1, !.gate1_approved = TRUE,
        !.product_analysis = Content("01_product_analysis.md", 1),
        !.persona_library = Content("02_persona_library.md", 1),
        !.content_strategy = Content("03_content_strategy.md", 1)] : i \in Inputs}

\* the keys a record file may have lost
DroppableFields ==
    {"session_id", "auto_approve", "input_sources", "gate1_approved", "crew1_iterations"}

NoData == [f \in {} |-> ""]

FileMissing == [kind |-> "missing", data |-> NoData]

\* a file that is not JSON, such as "{ invalid json content }"
FileCorrupted == [kind |-> "text", data |-> NoData]

\* a JSON object: the record of s without the keys in dropped, and with a key
\* that is no field of HITLSession when extra
FileJson(s, dropped, extra) ==
    LET keys == (AllFields \ dropped) \cup (IF extra THEN {"notes"} ELSE {}) IN
    [kind |-> "json",
     data |-> [f \in keys |-> IF f = "notes" THEN "" ELSE asdict(s)[f]]]

Files ==
    {FileMissing, FileCorrupted} \cup
    {FileJson(s, dropped, extra) :
        s \in SavedSessions, dropped \in SUBSET DroppableFields, extra \in BOOLEAN}

LoadFailed(exc) == [exc |-> exc, session |-> None]

Loaded(s) == [exc |-> "", session |-> Some(s)]

\* variant: the input of the record is tested without strip()
InputSourcesInvalid_NoStrip(text) == text = ""

\* _load_session: `not session.input_sources or not session.input_sources.strip()`
InputSourcesInvalid(text) == text = "" \/ Strip(text) = ""

\* HITLSession(**data): a key that is no field, or a field without default that
\* is no key, is a TypeError; a field with a default that is no key takes it
FromData(data) ==
    IF ~(DOMAIN data \subseteq AllFields) \/ ~(RequiredFields \subseteq DOMAIN data)
    THEN LoadFailed("TypeError")
    ELSE Loaded([f \in SessionFields |->
                    IF f \in DOMAIN data THEN data[f] ELSE HITLSession(FALSE)[f]])

\* HITLOrchestrator._load_session on the file of the session
load_session_file(file) ==
    IF file.kind = "missing" THEN LoadFailed("FileNotFoundError")
    ELSE IF file.kind = "text" THEN LoadFailed("JSONDecodeError")
    ELSE LET made == FromData(file.data) IN
         IF made.exc # "" THEN made
         ELSE IF InputSourcesInvalid(made.session[1].input_sources)
              THEN LoadFailed("ValueError")
              ELSE made

\* nothing is constructed yet; the file of the session is what it is
InitLoad ==
    /\ auto_approve \in BOOLEAN
    /\ session = None
    /\ disk \in Files
    /\ rate_limiter = NewRateLimiter(None)
    /\ pc = "new"
    /\ max_iterations = 0
    /\ crew_feedback = None
    /\ gate2_iterations = 0
    /\ gate3_iterations = 0
    /\ status = "none"
    /\ last_call = NoCall
    /\ runs = 0
    /\ entry = AtEntry(HITLSession(FALSE))
    /\ decisions = {}
    /\ ComponentsOff

\* HITLOrchestrator.__init__ with a session_id: the orchestrator exists, with
\* the session in Some(...), only when _load_session returns
Construct ==
    LET loaded == load_session_file(disk) IN
    /\ pc = "new"
    /\ session' = loaded.session
    /\ IF loaded.exc = ""
       THEN pc' = "idle" /\ status' = "none"
       ELSE pc' = "raised" /\ status' = loaded.exc
    /\ UNCHANGED <<disk, auto_approve, rate_limiter, max_iterations, crew_feedback,
                   gate2_iterations, gate3_iterations, last_call, runs, entry,
                   decisions>>
    /\ UNCHANGED component_vars

NextLoad == Construct

SpecLoad == InitLoad /\ [][NextLoad]_vars

(***************************************************************************)
(* Properties.                                                             *)
(***************************************************************************)
AllGatesApproved(s) == \A k \in 1..5 : GateApproved(s, k)

\* every reviewer decision of the current run, if any, was an approval
OnlyApprovals == decisions \subseteq {"approve"}

\* on entry, every stage block that is not skipped may run at least once
EntryBelowCap ==
    /\ entry.gate3_approved \/ entry.crew1_iterations < max_iterations
    /\ entry.gate4_approved \/ entry.crew2_iterations < max_iterations
    /\ entry.gate5_approved \/ entry.crew3_iterations < max_iterations

\* the gate named by the status of a run entered with a stage block at its cap
FirstCappedGate ==
    IF ~entry.gate3_approved /\ entry.crew1_iterations >= max_iterations THEN 1
    ELSE IF ~entry.gate4_approved /\ entry.crew2_iterations >= max_iterations THEN 4
    ELSE 5

CompletedState ==
    /\ status = "completed"
    /\ AllGatesApproved(session)
    /\ session.completed_at # None

\* C1 as stated: every run that returns after approvals only (fresh or resumed)
\* returns completed with the five flags true and completed_at set.
C1_AllApproveCompletes_Original ==
    (pc = "returned" /\ OnlyApprovals) => CompletedState

\* C1, amended: a run that returns after approvals only returns completed with the
\* five flags true and completed_at set when, on entry, every stage block whose
\* terminal gate is not approved has its counter below max_iterations (always so
\* on a fresh session); otherwise it returns max_iterations_gate{1|4|5} for the
\* first block at its cap.
C1_AllApproveCompletes ==
    (pc = "returned" /\ OnlyApprovals) =>
        IF EntryBelowCap THEN CompletedState
        ELSE status = MaxIterationsGate[FirstCappedGate]

\* C1 witness: a resumed run, asked for decisions and given approvals, completes
C1_Witness ==
    /\ pc = "returned" /\ status = "completed"
    /\ runs = 2 /\ decisions = {"approve"} /\ ~auto_approve
    /\ AllGatesApproved(session) /\ session.completed_at # None

\* C2 as stated: a run that returns rejected_at_gate{k} leaves the flags of the
\* gates after k false, and the persisted record equals the in-memory session.
C2_RejectPersisted ==
    \A k \in 1..5 :
        (pc = "returned" /\ status = RejectedAtGate[k]) =>
            /\ \A j \in (k + 1)..5 : ~GateApproved(session, j)
            /\ disk = Some(session)

\* C3 as stated: in every state of a run no iteration counter exceeds the run's
\* max_iterations.
C3_CountersWithinMax ==
    (pc # "idle" /\ status # "ValueError") =>
        /\ session.crew1_iterations <= max_iterations
        /\ session.crew2_iterations <= max_iterations
        /\ session.crew3_iterations <= max_iterations

InRun == pc \notin (Terminal \cup {"idle"})

Stage1Fields(s) ==
    <<s.crew1_iterations, s.product_analysis, s.persona_library, s.content_strategy>>

Stage2Fields(s) == <<s.crew2_iterations, s.generated_content>>

Stage3Fields(s) == <<s.crew3_iterations, s.final_content>>

\* C4: in a run entered with gate3_approved true, no step changes crew1_iterations
\* or a Stage 1 output, and control never reaches the Stage 1 loop or gates 1-3.
C4_ResumeSkipsStage1 ==
    [][(InRun /\ entry.gate3_approved) =>
          /\ Stage1Fields(session') = Stage1Fields(session)
          /\ pc' \notin {"gate1_loop", "gate1_ask", "gate2_ask", "gate3_ask"}]_vars

\* C4 witness: a resumed run entered with gate 3 approved stands at gate 4
C4_Witness == pc = "gate4_ask" /\ entry.gate3_approved /\ runs = 2

\* C5: a stage block whose terminal gate was approved on entry is skipped (its
\* counter and outputs never change in the run), and a run entered with the five
\* gates approved executes no stage, asks no decision, changes no output, flag
\* or counter, makes no request and returns completed.
C5_ResumeIdempotent ==
    [][InRun =>
          /\ entry.gate3_approved => Stage1Fields(session') = Stage1Fields(session)
          /\ entry.gate4_approved => Stage2Fields(session') = Stage2Fields(session)
          /\ entry.gate5_approved => Stage3Fields(session') = Stage3Fields(session)
          /\ (entry.gate3_approved /\ entry.gate4_approved /\ entry.gate5_approved) =>
                /\ [session' EXCEPT !.completed_at = None]
                       = [session EXCEPT !.completed_at = None]
                /\ decisions' = {}
                /\ ~last_call'.made
                /\ rate_limiter' = rate_limiter
                /\ pc' \in {"crew2_block", "crew3_block", "complete", "returned"}
                /\ pc' = "returned" => status' = "completed"]_vars

\* C5 witness: a run entered with the five gates approved has returned completed
C5_Witness ==
    /\ pc = "returned" /\ status = "completed" /\ runs = 2
    /\ entry.gate3_approved /\ entry.gate4_approved /\ entry.gate5_approved

\* C6 as stated: when an error raised by a stage execution leaves the run, the
\* persisted record equals the in-memory session.
C6_StageErrorPersisted ==
    (pc = "raised" /\ last_call.made) => disk = Some(session)

\* C7 as stated: when a KeyboardInterrupt ends the run, the persisted record
\* equals the in-memory session.
C7_InterruptPersisted ==
    pc = "interrupted" => disk = Some(session)

\* the state right after the approval branch of gate k
JustApproved(k) ==
    CASE k = 1 -> pc = "gate2_ask" /\ ~last_call.made
      [] k = 2 -> pc = "gate3_ask" /\ ~last_call.made
      [] k = 3 -> pc = "crew2_block" /\ ~entry.gate3_approved
      [] k = 4 -> pc = "crew3_block" /\ ~entry.gate4_approved
      [] k = 5 -> pc = "complete" /\ ~entry.gate5_approved

\* the part of C8 about approvals: right after gate k is approved the record has
\* the flag of gate k and equals the in-memory session
C8_ApprovalPersisted ==
    \A k \in 1..5 :
        JustApproved(k) => (GateApproved(session, k) /\ disk = Some(session))

\* C8 as stated: the record equals the session right after every approval, and
\* when the run returns completed or max_iterations_gate{k}.
C8_PersistedAtOutcomes ==
    /\ C8_ApprovalPersisted
    /\ (pc = "returned"
        /\ (status = "completed" \/ \E k \in 1..5 : status = MaxIterationsGate[k]))
           => disk = Some(session)

QuotaErrors == {MsgQuotaExceeded, MsgResourceQuota, MsgCurrentQuota}

ThrottleErrors == {Msg429, MsgThrottle, MsgQuotaWarn}

\* the call was invoked, failed with throttling errors on every invocation before
\* the last event of its behaviour, and that many retries were allowed
ThrottledThenLast(c) ==
    /\ c.made
    /\ check_budget(c.before)
    /\ Len(c.beh) - 1 <= c.before.config.max_retries
    /\ \A i \in 1..(Len(c.beh) - 1) :
           c.beh[i].kind = "error" /\ c.beh[i].msg \in ThrottleErrors

Last(beh) == beh[Len(beh)]

\* C9: a call that raises a quota-exhaustion error at its n-th invocation makes
\* execute_with_retry raise the quota-exhausted RuntimeError after exactly n
\* invocations and n-1 sleeps (those of the earlier throttled attempts), and the
\* session is on disk when the error has left the run.
C9_QuotaRaisesAtOnce ==
    (/\ ThrottledThenLast(last_call)
     /\ Last(last_call.beh).kind = "error"
     /\ Last(last_call.beh).msg \in QuotaErrors) =>
        /\ last_call.outcome = "raise"
        /\ last_call.exc = "RuntimeError"
        /\ last_call.text = MsgQuotaExhausted
        /\ last_call.invocations = Len(last_call.beh)
        /\ last_call.sleeps = Len(last_call.beh) - 1
        /\ pc = "raised"
        /\ disk = Some(session)

\* C9 witness: a quota error on the first attempt of a stage call has left the run
C9_Witness ==
    /\ pc = "raised" /\ last_call.made
    /\ last_call.beh = <<EvError(MsgQuotaExceeded)>>
    /\ last_call.invocations = 1 /\ last_call.sleeps = 0

\* C10: a call throttled on its first k invocations, k <= max_retries, that then
\* succeeds makes execute_with_retry return after exactly k+1 invocations, with
\* no exception.
C10_RetryThenSuccess ==
    (ThrottledThenLast(last_call) /\ Last(last_call.beh).kind = "ok") =>
        /\ last_call.outcome = "return"
        /\ last_call.exc = ""
        /\ last_call.invocations = Len(last_call.beh)
        /\ last_call.sleeps = Len(last_call.beh) - 1

\* C10 witness: two throttled invocations, then success at the third
C10_Witness ==
    /\ last_call.made
    /\ last_call.beh = <<EvError(Msg429), EvError(Msg429), EvOk>>
    /\ last_call.outcome = "return" /\ last_call.invocations = 3

\* C11 as stated: any two successive external calls made through one RateLimiter,
\* the retries inside execute_with_retry included, are at least min_request_gap
\* apart.
C11_CallsAtLeastGapApart ==
    history.spacing # None => history.spacing[1] >= limiter.timing.min_request_gap

\* C12: N sequential calls (or wait/log rounds) on a limiter with min_request_gap
\* g take at least g*(N-1) from the entry of the first to the end of the last;
\* the first wait_if_needed sleeps 0, and a later one sleeps g minus the time
\* since the last logged request whenever that is positive.
C12_SequentialCallsTakeGaps ==
    /\ (lpc.pc = "ready" /\ history.completed >= 1) =>
           clock - history.first_start[1]
               >= limiter.timing.min_request_gap * (history.completed - 1)
    /\ lpc.after_wait =>
           LET w == history.last_wait[1]
               g == limiter.timing.min_request_gap
           IN  /\ w.first => w.wait = 0
               /\ (~w.first /\ g - w.elapsed > 0) => w.wait = g - w.elapsed

\* C12 witness: three calls done on a limiter with a gap of 5, the last of which
\* arrived 3 after the request before it and slept the remaining 2
C12_Witness ==
    /\ lpc.pc = "ready" /\ history.completed = 3
    /\ limiter.timing.min_request_gap = 5
    /\ history.last_wait = Some([first |-> FALSE, elapsed |-> 3, wait |-> 2])
    /\ clock - history.first_start[1] >= 10

\* the requests of the timestamp ring that lie in the 60 seconds before `now`
InWindow(l, now) == {i \in 1..Len(l.request_times) : now - l.request_times[i] < Window}

\* C13 as stated: when wait_if_needed returns, min_request_gap has elapsed since
\* the last request and at most requests_per_minute requests are recorded in the
\* trailing 60-second window.
C13_BothConstraintsOnReturn ==
    lpc.after_wait =>
        /\ limiter.last_request_time # None =>
               clock - limiter.last_request_time[1] >= limiter.timing.min_request_gap
        /\ Cardinality(InWindow(limiter, clock)) <= limiter.timing.requests_per_minute

\* the delay a reader finds in the error text ("retry in N s"), if any
ProviderDelay(msg) ==
    CASE msg = MsgRetryIn2 -> Some(2)
      [] msg = MsgRetryIn7 -> Some(7)
      [] msg = MsgRetryCapital -> Some(7)
      [] OTHER -> None

\* C14 as stated: the delay slept for the 0-indexed attempt i is
\* min(initial_backoff * backoff_multiplier^i, max_backoff), or the delay the
\* provider suggests in the error text when that is larger, and it never exceeds
\* max_backoff.
C14_BackoffDelayCapped ==
    history.last_backoff # None =>
        LET b == history.last_backoff[1]
            cfg == limiter.timing
            computed == Min(cfg.initial_backoff * Pow(cfg.backoff_multiplier, b.attempt),
                            cfg.max_backoff)
            hint == ProviderDelay(b.msg)
        IN  /\ b.wait = IF hint # None /\ hint[1] > computed THEN hint[1] ELSE computed
            /\ b.wait <= cfg.max_backoff

\* C15 as stated: check_budget is false exactly when a budget is configured and
\* the logged calls have reached it, execute_with_retry then raises the
\* budget-exhausted error without invoking the call or changing the limiter, and
\* the calls made through one RateLimiter never exceed max_api_calls.
C15_BudgetNeverExceeded ==
    /\ check_budget(rate_limiter) <=>
           ~(/\ rate_limiter.config.max_api_calls # None
             /\ rate_limiter.stats.total_requests >= rate_limiter.config.max_api_calls[1])
    /\ (last_call.made /\ ~check_budget(last_call.before)) =>
           /\ last_call.outcome = "raise" /\ last_call.exc = "RuntimeError"
           /\ last_call.text = MsgBudgetExhausted
           /\ last_call.invocations = 0
           /\ rate_limiter = last_call.before
    /\ rate_limiter.config.max_api_calls # None =>
           rate_limiter.stats.total_requests <= rate_limiter.config.max_api_calls[1]

\* the requests the last stage call added to total_requests
LoggedByLastCall ==
    rate_limiter.stats.total_requests - last_call.before.stats.total_requests

StatsAddUp(rl) ==
    rl.stats.total_requests = rl.stats.successful_requests + rl.stats.failed_requests

\* C16 as stated: every invocation of the call is logged exactly once, so
\* total_requests grows by the number of invocations and is the sum of
\* successful_requests and failed_requests.
C16_LoggedOncePerInvocation_Original ==
    /\ StatsAddUp(rate_limiter)
    /\ last_call.made => LoggedByLastCall = last_call.invocations

\* the last invocation of the call was ended by a KeyboardInterrupt
InterruptedInCall(c) ==
    /\ c.exc = "KeyboardInterrupt"
    /\ c.invocations >= 1
    /\ EventAt(c.beh, c.invocations).kind # "error"

\* C16, amended: every invocation that returns or raises an Exception (success,
\* throttling, quota exhaustion, unrelated error) is logged exactly once; an
\* invocation ended by a KeyboardInterrupt is not logged. total_requests is always
\* the sum of successful_requests and failed_requests.
C16_LoggedOncePerInvocation ==
    /\ StatsAddUp(rate_limiter)
    /\ last_call.made =>
           LoggedByLastCall
               = last_call.invocations - (IF InterruptedInCall(last_call) THEN 1 ELSE 0)

\* C16 witness: a call throttled twice that then failed with an unrelated error:
\* three invocations, three requests logged, all failed
C16_Witness ==
    /\ last_call.made
    /\ last_call.beh = <<EvError(Msg429), EvError(Msg429), EvError(MsgOther)>>
    /\ LoggedByLastCall = 3
    /\ rate_limiter.stats.failed_requests >= 3

\* C17: a call that fails with a throttling error on every invocation is invoked
\* exactly max_retries + 1 times, with max_retries backoff sleeps, and then
\* execute_with_retry raises the error of the last invocation.
C17_RetriesBounded ==
    (/\ last_call.made
     /\ check_budget(last_call.before)
     /\ \A i \in 1..Len(last_call.beh) :
            last_call.beh[i].kind = "error" /\ last_call.beh[i].msg \in ThrottleErrors) =>
        LET max_retries == last_call.before.config.max_retries IN
        /\ last_call.outcome = "raise"
        /\ last_call.exc = "Exception"
        /\ last_call.text = EventAt(last_call.beh, max_retries + 1).msg
        /\ last_call.invocations = max_retries + 1
        /\ last_call.sleeps = max_retries

\* C17 witness: a stage call that was throttled at every invocation has left the
\* run with the throttling error
C17_Witness ==
    /\ pc = "raised" /\ status = "Exception"
    /\ last_call.made /\ last_call.text = Msg429
    /\ last_call.invocations = last_call.before.config.max_retries + 1
    /\ last_call.sleeps = last_call.before.config.max_retries

UnrelatedErrors == {MsgOther}

Kinds == {"quota", "rate_limit", "other"}

\* C18: every error falls in exactly one of quota exhaustion, throttling and
\* unrelated; an error matching both the quota and the throttling patterns is
\* quota exhaustion; an unrelated error is raised as it is after the invocation
\* that raised it, with no backoff sleep and no retry.
C18_ThreeKinds ==
    /\ \A m \in ErrorMsgs \cup TimedMsgs :
           /\ Classify(m) \in Kinds
           /\ Classify(m) = "quota" <=> m \in QuotaErrors
           /\ Classify(m) = "rate_limit" <=> m \in (ThrottleErrors \cup TimedMsgs) \ (QuotaErrors \cup UnrelatedErrors)
           /\ Classify(m) = "other" <=> m \in UnrelatedErrors
           /\ (is_rate_limit(m) /\ is_quota_exhausted(m)) => Classify(m) = "quota"
    /\ (/\ ThrottledThenLast(last_call)
        /\ Last(last_call.beh).kind = "error"
        /\ Last(last_call.beh).msg \in UnrelatedErrors) =>
           /\ last_call.outcome = "raise"
           /\ last_call.exc = "Exception"
           /\ last_call.text = Last(last_call.beh).msg
           /\ last_call.invocations = Len(last_call.beh)
           /\ last_call.sleeps = Len(last_call.beh) - 1
           /\ rate_limiter.stats.rate_limited_requests
                  = last_call.before.stats.rate_limited_requests + Len(last_call.beh) - 1

\* C18 witness: an unrelated error on the first invocation of a stage call has
\* left the run after that single invocation
C18_Witness ==
    /\ pc = "raised" /\ status = "Exception"
    /\ last_call.made /\ last_call.beh = <<EvError(MsgOther)>>
    /\ last_call.invocations = 1 /\ last_call.sleeps = 0

\* what holds of run_with_retry whether or not a snapshot is due: it invokes func
\* at most max_retries times, returns at the first success (no snapshot, no
\* RecoveryError), and sleeps once between two attempts, initial_delay the first
\* time and backoff_factor times the delay before each time after
RecoveryAttemptsAndSleeps ==
    LET r == recovery IN
    /\ Len(r.invoked) <= r.max_retries
    /\ r.pc = "returned" =>
           /\ Last(r.invoked).kind = "ok"
           /\ \A i \in 1..(Len(r.invoked) - 1) : r.invoked[i].kind = "error"
           /\ r.snapshots = 0
           /\ r.raised = None
    /\ \A i \in 1..Len(r.slept) :
           r.slept[i] = r.initial_delay * Pow(r.backoff_factor, i - 1)
    /\ r.pc \in {"returned", "raised"} => Len(r.slept) = Max(Len(r.invoked) - 1, 0)
    /\ r.pc = "raised" => r.raised[1].exc = "RecoveryError"

\* C19 as stated: on top of the above, after the last failed attempt the snapshot
\* is taken exactly once, and only then RecoveryError is raised, wrapping the
\* error of the last attempt.
C19_RunWithRetry_Original ==
    /\ RecoveryAttemptsAndSleeps
    /\ recovery.pc = "raised" =>
           /\ recovery.snapshots = 1
           /\ recovery.raised[1].cause = Some(Last(recovery.invoked).msg)

\* C19, amended: the snapshot is taken exactly once, after the last failed attempt
\* and before RecoveryError is raised, when crew_name and output_dir are both
\* given and max_retries >= 1, and not at all otherwise; RecoveryError wraps the
\* error of the last attempt, or nothing when max_retries = 0.
C19_RunWithRetry ==
    LET r == recovery
        due == r.crew_name /\ r.output_dir /\ r.max_retries >= 1
    IN
    /\ RecoveryAttemptsAndSleeps
    /\ (r.pc = "loop" /\ r.attempt < r.max_retries) => r.snapshots = 0
    /\ (r.pc = "raised" \/ (r.pc = "loop" /\ r.attempt >= r.max_retries)) =>
           r.snapshots = IF due THEN 1 ELSE 0
    /\ r.pc = "raised" =>
           r.raised[1].cause = IF r.max_retries = 0 THEN None
                               ELSE Some(Last(r.invoked).msg)

\* C19 witness: three failed attempts with delays 5 and 10 between them, one
\* snapshot, then RecoveryError
C19_Witness ==
    /\ recovery.pc = "raised"
    /\ recovery.max_retries = 3 /\ Len(recovery.invoked) = 3
    /\ recovery.slept = <<5, 10>>
    /\ recovery.snapshots = 1
    /\ recovery.raised[1].cause = Some(MsgOther)

\* C20 as stated: a stage call of the pipeline that fails with an error that is
\* neither throttling nor quota exhaustion is retried by run_with_retry and
\* leaves the orchestrator as a RecoveryError.
C20_StageFailureIsRecoveryError ==
    (/\ pc = "raised" /\ last_call.made
     /\ ThrottledThenLast(last_call)
     /\ Last(last_call.beh).kind = "error"
     /\ Last(last_call.beh).msg \in UnrelatedErrors) =>
        status = "RecoveryError"

\* the effects a run can have: on the session, the record, the limiter, the
\* stage calls and the reviewer
NoEffect ==
    /\ session' = session
    /\ disk' = disk
    /\ rate_limiter' = rate_limiter
    /\ ~last_call'.made
    /\ decisions' = {}

\* C21: run_full_pipeline called with an empty or whitespace-only input, or with
\* max_iterations < 1, raises the validation error at once: no stage is executed,
\* no decision is asked, nothing is persisted and the session is unchanged.
C21_ValidationBeforeStages ==
    [][\A i \in Inputs, mi \in MaxIterationsArgs, stale_exit \in BOOLEAN :
          (StartRun(i, mi, stale_exit) /\ (i \in {"", " "} \/ mi < 1)) =>
              (pc' = "raised" /\ status' = "ValueError" /\ NoEffect)]_vars

\* C21 witness: a run on a resumed session, with outputs and a persisted record,
\* has been refused by the validation
C21_Witness ==
    /\ pc = "raised" /\ status = "ValueError" /\ runs = 2
    /\ session.crew1_iterations > 0 /\ disk = Some(session)

\* the record file lacks a key of the schema of HITLSession
SomeFieldMissing(file) == file.kind = "json" /\ ~(AllFields \subseteq DOMAIN file.data)

\* the record file lacks a key that HITLSession has no default for
RequiredFieldMissing(file) ==
    file.kind = "json" /\ ~(RequiredFields \subseteq DOMAIN file.data)

\* the record file has an input payload that is empty or whitespace only
EmptyInput(file) ==
    /\ file.kind = "json"
    /\ "input_sources" \in DOMAIN file.data
    /\ file.data["input_sources"] \in {"", " "}

\* the constructor raised: there is no orchestrator and no session
NothingConstructed == pc = "raised" /\ session = None

\* C22 as stated: a missing record, a corrupted record, a record with missing
\* fields and a record with an empty or whitespace-only input all fail at load.
C22_BadRecordFailsAtLoad_Original ==
    (pc # "new" /\ (\/ disk.kind \in {"missing", "text"}
                    \/ SomeFieldMissing(disk)
                    \/ EmptyInput(disk))) => NothingConstructed

\* C22, amended: a missing record, a corrupted record, a record that lacks one of
\* session_id, started_at, input_sources, auto_approve and a record with an empty
\* or whitespace-only input fail at load, the last with ValueError; a record that
\* lacks only fields that have a default is loaded with the defaults in their place.
C22_BadRecordFailsAtLoad ==
    pc # "new" =>
        /\ (\/ disk.kind \in {"missing", "text"}
            \/ RequiredFieldMissing(disk)
            \/ EmptyInput(disk)) => NothingConstructed
        /\ (EmptyInput(disk) /\ DOMAIN disk.data = AllFields) => status = "ValueError"
        /\ (/\ disk.kind = "json" /\ DOMAIN disk.data \subseteq AllFields
            /\ ~RequiredFieldMissing(disk) /\ ~EmptyInput(disk)) =>
               /\ pc = "idle" /\ session # None
               /\ \A f \in SessionFields :
                      session[1][f] = IF f \in DOMAIN disk.data THEN disk.data[f]
                                      ELSE HITLSession(FALSE)[f]

\* C22 witness: the complete record of a session that passed gate 1, with a
\* whitespace-only input, has been refused
C22_Witness ==
    /\ NothingConstructed /\ status = "ValueError"
    /\ disk.kind = "json" /\ DOMAIN disk.data = AllFields
    /\ disk.data["input_sources"] = " " /\ disk.data["gate1_approved"]

\* the first run on a session the orchestrator created
FreshRun == runs = 1 /\ pc # "idle"

GatesInOrder(s) == \A k \in 1..4 : GateApproved(s, k + 1) => GateApproved(s, k)

\* C23: in auto-approve mode no decision comes from the reviewer, so a fresh run
\* executes no stage twice, approves the gates in order, is never ended by a
\* rejection, a cap or an interrupt at a gate, and, when its stage calls succeed,
\* returns completed with the three counters at 1 and the five gates approved.
C23_AutoApproveCompletes ==
    (auto_approve /\ FreshRun /\ status \notin {"ValueError", "SystemExit"}) =>
        /\ decisions \subseteq {"approve"}
        /\ GatesInOrder(session)
        /\ session.crew1_iterations <= 1
        /\ session.crew2_iterations <= 1
        /\ session.crew3_iterations <= 1
        /\ pc \in {"raised", "interrupted"} => last_call.made
        /\ pc = "returned" =>
               /\ status = "completed"
               /\ session.crew1_iterations = 1
               /\ session.crew2_iterations = 1
               /\ session.crew3_iterations = 1
               /\ AllGatesApproved(session)
               /\ session.completed_at # None

\* C23 witness: a fresh auto-approve run has returned completed
C23_Witness ==
    /\ auto_approve /\ FreshRun /\ pc = "returned" /\ status = "completed"
    /\ decisions = {"approve"}
    /\ session.crew1_iterations = 1 /\ session.gate5_approved

Stage1Outputs(s) == <<s.product_analysis, s.persona_library, s.content_strategy>>

GateAsk == <<"gate1_ask", "gate2_ask", "gate3_ask", "gate4_ask", "gate5_ask">>

\* the step that follows feedback or edit at gate k: for gate 1 the next turn of
\* the Stage 1 loop, for gates 2 and 3 the rest of the feedback branch (the only
\* branch of these gates that executes a stage)
FeedbackStep(k) ==
    CASE k = 1 -> pc = "gate1_loop" /\ crew_feedback # None
                  /\ (last_call'.made \/ Gate1Loop)
      [] k = 2 -> pc = "gate2_ask" /\ ~auto_approve
                  /\ (last_call'.made \/ \E a \in {"edit", "feedback"} : Gate2Ask(a))
      [] k = 3 -> pc = "gate3_ask" /\ ~auto_approve
                  /\ (last_call'.made \/ \E a \in {"edit", "feedback"} : Gate3Ask(a))

\* Stage 1 is started once more with the feedback text in its input
Stage1Restarted ==
    /\ last_call'.made /\ last_call'.crew = 1
    /\ last_call'.guidance = Some(FeedbackText)
    /\ session'.crew1_iterations = session.crew1_iterations + 1

\* the three outputs are those of the execution just made
Stage1Overwritten ==
    Stage1Outputs(session') =
        <<Content("01_product_analysis.md", session'.crew1_iterations),
          Content("02_persona_library.md", session'.crew1_iterations),
          Content("03_content_strategy.md", session'.crew1_iterations)>>

\* C24 as stated: feedback or edit at gate 1, 2 or 3 re-runs Stage 1 with the
\* feedback, adds one to crew1_iterations, overwrites the three Stage 1 outputs
\* and presents the same gate again.
C24_FeedbackRerunsStage1_Original ==
    [][\A k \in 1..3 :
          FeedbackStep(k) =>
              (Stage1Restarted /\ Stage1Overwritten /\ pc' = GateAsk[k])]_vars

\* the cap test that precedes the re-run after feedback at gate k
FeedbackAtCap(k) ==
    CASE k = 1 -> session.crew1_iterations >= max_iterations
      [] k = 2 -> gate2_iterations >= max_iterations
      [] k = 3 -> gate3_iterations >= max_iterations

\* C24, amended: after feedback or edit at gate 1, 2 or 3 the run returns
\* max_iterations_gate{k} with the session untouched when the cap of that gate is
\* reached (crew1_iterations at gate 1, the number of re-runs made at that gate at
\* gates 2 and 3); otherwise Stage 1 is started again with the feedback and
\* crew1_iterations grows by one, and either the call returns with its three
\* files, all three outputs are overwritten and the same gate is presented
\* again, or the execution fails, the outputs stay as they were and the run ends.
C24_FeedbackRerunsStage1 ==
    [][\A k \in 1..3 :
          FeedbackStep(k) =>
              IF FeedbackAtCap(k)
              THEN /\ pc' = "returned" /\ status' = MaxIterationsGate[k]
                   /\ session' = session /\ ~last_call'.made
              ELSE /\ Stage1Restarted
                   /\ \/ pc' = GateAsk[k] /\ Stage1Overwritten
                      \/ /\ pc' \in {"raised", "interrupted"}
                         /\ Stage1Outputs(session') = Stage1Outputs(session)
                         /\ last_call'.outcome = "raise" \/ status' = "RuntimeError"]_vars

\* C24 witness: gate 3 is presented again after feedback there re-ran Stage 1,
\* with gates 1 and 2 approved on the outputs of an earlier execution
C24_Witness ==
    /\ pc = "gate3_ask" /\ last_call.made /\ last_call.crew = 1
    /\ last_call.guidance = Some(FeedbackText)
    /\ session.gate2_approved /\ session.crew1_iterations >= 2
    /\ session.product_analysis = Content("01_product_analysis.md", session.crew1_iterations)

\* C25: in every step (of a fresh or a resumed run, and of the load that resumes
\* a session from its record) a gate flag that is true stays true, also when
\* feedback at gate 2 or 3 re-runs Stage 1 and overwrites what gate 1 approved.
C25_GateFlagsMonotonic ==
    [][\A k \in 1..5 : GateApproved(session, k) => GateApproved(session', k)]_vars

\* C25 witness: gate 1 is still approved after feedback at gate 2 replaced the
\* product analysis it was approved on
C25_Witness ==
    /\ pc = "gate2_ask" /\ last_call.made /\ last_call.crew = 1
    /\ session.gate1_approved /\ ~session.gate2_approved
    /\ session.crew1_iterations >= 2
    /\ session.product_analysis = Content("01_product_analysis.md", session.crew1_iterations)

\* C26 as stated: in every state after the orchestrator has created or loaded its
\* session, and in every record it has persisted, input_sources is a non-empty
\* string.
C26_InputNeverEmpty ==
    /\ Strip(session.input_sources) # ""
    /\ disk # None => Strip(disk[1].input_sources) # ""

\* the part of C26 that holds: every record the orchestrator persisted, and every
\* session once a run has passed the validation, has a non-empty input
C26_PersistedInputNotEmpty ==
    /\ disk # None => Strip(disk[1].input_sources) # ""
    /\ (pc # "idle" /\ status # "ValueError") => Strip(session.input_sources) # ""

\* the gates before gate k are approved
ApprovedBefore(s, k) == \A j \in 1..(k - 1) : GateApproved(s, j)

\* C27: in every reachable state (of fresh and of resumed runs) gate k+1 approved
\* implies gate k approved; Stage 2 is executed only with gates 1-3 approved and
\* Stage 3 only with gates 1-4 approved; gate k is presented only with the gates
\* before it approved and with an output of its stage to show.
C27_StagesAndGatesInOrder ==
    /\ GatesInOrder(session)
    /\ (last_call.made /\ last_call.crew = 2) => ApprovedBefore(session, 4)
    /\ (last_call.made /\ last_call.crew = 3) => ApprovedBefore(session, 5)
    /\ pc \in {"gate4_loop", "gate4_ask"} => ApprovedBefore(session, 4)
    /\ pc \in {"gate5_loop", "gate5_ask"} => ApprovedBefore(session, 5)
    /\ \A k \in 2..5 : pc = GateAsk[k] => ApprovedBefore(session, k)
    /\ pc \in {"gate1_ask", "gate2_ask", "gate3_ask"} =>
           (session.crew1_iterations >= 1 /\ session.content_strategy # None)
    /\ pc = "gate4_ask" =>
           (session.crew2_iterations >= 1 /\ session.generated_content # None)
    /\ pc = "gate5_ask" =>
           (session.crew3_iterations >= 1 /\ session.final_content # None)

\* C27 witness: Stage 3 has just been executed in a fresh run, with gates 1-4
\* approved and gate 5 not
C27_Witness ==
    /\ FreshRun /\ pc = "gate5_ask" /\ last_call.made /\ last_call.crew = 3
    /\ ApprovedBefore(session, 5) /\ ~session.gate5_approved

\* the run returned rejected_at_gate{k} or max_iterations_gate{k}
StoppedAtGate(k) ==
    pc = "returned" /\ status \in {RejectedAtGate[k], MaxIterationsGate[k]}

\* C28 as stated: whenever a run returns rejected_at_gate{k} or
\* max_iterations_gate{k}, on a fresh or on a resumed session, the flag of gate k
\* is false.
C28_StoppedGateNotApproved ==
    \A k \in 1..5 : StoppedAtGate(k) => ~GateApproved(session, k)

\* the part of C28 that holds: on a fresh session, and at gates 3, 4 and 5 of any
\* session, the flag of the gate a run stopped at is false
C28_StoppedGateNotApprovedFresh ==
    \A k \in 1..5 :
        (StoppedAtGate(k) /\ (FreshRun \/ k >= 3)) => ~GateApproved(session, k)

Counters(s) == <<s.crew1_iterations, s.crew2_iterations, s.crew3_iterations>>

ExecutedInRun(n) == Counters(session)[n] - Counters(entry)[n]

\* the limiter has made as many requests as the model follows it for
RequestsAtBound == rate_limiter.stats.total_requests >= MaxRequests

\* the loops of run_full_pipeline in the order they are entered, and for each
\* position of the run the loop it is in or about to enter
LoopOf ==
    [crew1_block |-> 1, gate1_loop |-> 1, gate1_ask |-> 1, gate2_ask |-> 2,
     gate3_ask |-> 3, crew2_block |-> 4, gate4_loop |-> 4, gate4_ask |-> 4,
     crew3_block |-> 5, gate5_loop |-> 5, gate5_ask |-> 5, complete |-> 6]

\* the executions the cap of the current loop still allows
RemainingInLoop ==
    LET used == CASE LoopOf[pc] = 1 -> session.crew1_iterations
                  [] LoopOf[pc] = 2 -> gate2_iterations
                  [] LoopOf[pc] = 3 -> gate3_iterations
                  [] LoopOf[pc] = 4 -> session.crew2_iterations
                  [] LoopOf[pc] = 5 -> session.crew3_iterations
                  [] OTHER -> max_iterations
    IN  Max(max_iterations - used, 0)

\* a natural number that every step of a run makes smaller: the loops still to
\* come, then the executions left in the current loop, then the place in it
Rank ==
    IF ~InRun THEN 0
    ELSE (7 - LoopOf[pc]) * 3 * (max_iterations + 1)
         + 3 * RemainingInLoop
         + (CASE pc \in {"crew1_block", "crew2_block", "crew3_block"} -> 2
              [] pc \in {"gate1_ask", "gate4_ask", "gate5_ask"} -> 1
              [] OTHER -> 0)

\* the executions of a run stay within the caps of its loops
ExecutionsBounded ==
    pc # "idle" =>
        /\ ExecutedInRun(1) <= 3 * max_iterations
        /\ ExecutedInRun(2) <= max_iterations
        /\ ExecutedInRun(3) <= max_iterations

\* the part of C30 that is a safety property, for every configuration of the
\* limiter: the executions are bounded and every step of a run lowers Rank
C30_BoundedAndDecreasing == []ExecutionsBounded /\ [][InRun => Rank' < Rank]_vars

\* C30: within one run Stage 1 is executed at most 3 * max_iterations times and
\* Stages 2 and 3 at most max_iterations times each, whatever the reviewer
\* answers; every step of a run lowers Rank, so no run loops; and every run comes
\* to an end (it returns or raises) as long as the model follows its limiter.
C30_RunTerminates ==
    /\ []ExecutionsBounded
    /\ [][InRun => Rank' < Rank]_vars
    /\ InRun ~> (~InRun \/ RequestsAtBound)

\* C30 witness: a fresh run that got feedback at gate 3 after 3 * max_iterations
\* successful executions of Stage 1 has returned max_iterations_gate3
C30_Witness ==
    /\ FreshRun /\ pc = "returned" /\ status = MaxIterationsGate[3]
    /\ max_iterations >= 1 /\ ExecutedInRun(1) = 3 * max_iterations
    /\ decisions = {"approve", "feedback"}

====
